---- MODULE Spec2Model ----
(***************************************************************************)
(* Hand cricket contract (contracts/hand-cricket/src/lib.rs): the game     *)
(* entity kept in temporary storage, the four player-facing entry points   *)
(* start_game, commit_number, reveal_number and choose_role, the resolvers *)
(* resolve_toss and resolve_ball, verify_proof, and the calls made to the  *)
(* game hub.  Every entry point is one atomic step.                        *)
(***************************************************************************)
EXTENDS Integers, Sequences, FiniteSets, TLC

VARIABLES
    storage,          \* env.storage().temporary(): session id -> Option<entry>
    hub,              \* the calls the GameHub contract has received, in order
    ledger,           \* the current ledger sequence number
    overflow_checks,  \* build profile: u32 overflow panics (TRUE) or wraps (FALSE)
    balls             \* number of ball rounds resolved so far

vars == <<storage, hub, ledger, overflow_checks, balls>>

----------------------------------------------------------------------------
(* Bounds of the exploration *)

MaxStarts == 2        \* start_game calls that store a game
MaxBalls == 4         \* ball rounds resolved, over all games
MaxTicks == 1         \* ledger advances
LedgerStep == 300000  \* ledgers that pass in one advance
MaxNumber == 1        \* the small numbers 0..MaxNumber offered to reveal_number

----------------------------------------------------------------------------
(* Option<T>: None is the empty sequence, Some(v) the one-element sequence *)

None == <<>>
Some(v) == <<v>>
is_some(o) == o # <<>>
unwrap(o) == o[1]
unwrap_or(o, d) == IF o # <<>> THEN o[1] ELSE d

----------------------------------------------------------------------------
(* u32: the value hi * 2^16 + lo kept as the pair <<hi, lo>> of 16-bit     *)
(* halves, so that the full 32-bit width and its overflow are kept.        *)

Half == 65536

u32(n) == <<n \div Half, n % Half>>
U32_MAX == <<Half - 1, Half - 1>>

\* (n0 << 24) | (n1 << 16) | (n2 << 8) | n3 for four bytes
u32_from_be(n0, n1, n2, n3) == <<n0 * 256 + n1, n2 * 256 + n3>>

u32_lt(a, b) == a[1] < b[1] \/ (a[1] = b[1] /\ a[2] < b[2])
u32_ge(a, b) == ~u32_lt(a, b)
u32_is_odd(a) == a[2] % 2 = 1

\* a + b: the wrapped sum and whether the exact sum left the 32 bits
u32_add(a, b) ==
    LET lo == a[2] + b[2]
        hi == a[1] + b[1] + (lo \div Half)
    IN  [overflow |-> hi >= Half, val |-> <<hi % Half, lo % Half>>]

----------------------------------------------------------------------------
(* Inputs *)

SessionIds == {1}
Addresses == {"A", "B", "C"}             \* addresses that call the entry points
StartPairs == {<<"A", "B">>, <<"A", "A">>}  \* (player1, player2) given to start_game
Points == {100}                          \* stakes
SeedBytes == {6, 7}                      \* seed_array[31] as keccak256 may give it
Numbers == {u32(n) : n \in 0..MaxNumber} \cup {U32_MAX}

\* BytesN<32> commitments: two values that differ in their last byte only
Commitment(k) == [i \in 1..32 |-> IF i = 32 THEN k ELSE 171] \o <<>>
Commitments == {Commitment(1), Commitment(2)}
\* (player, commitment) given to commit_number
Commits == {<<"A", Commitment(1)>>, <<"B", Commitment(2)>>, <<"C", Commitment(1)>>}

Phases == {"TossCommit", "TossReveal", "BatBowlChoice", "BallCommit", "BallReveal", "Finished"}

Errors == {"GameNotFound", "NotPlayer", "WrongPhase", "AlreadyCommitted", "AlreadyRevealed",
           "CommitMissing", "ProofInvalid", "GameAlreadyEnded", "SelfPlay", "NotTossWinner"}

GAME_TTL_LEDGERS == 518400

----------------------------------------------------------------------------
(* Bytes: a sequence of bytes; Bytes::get(i) is None beyond the length     *)

bytes_get(b, i) == IF i < Len(b) THEN Some(b[i + 1]) ELSE None

\* the four big-endian bytes of a u32
be_bytes(n) == <<n[1] \div 256, n[1] % 256, n[2] \div 256, n[2] % 256>>

\* A blob of `len` bytes laid out as [0..4) num_inputs, [4..36) commitment,
\* [64..68) number, every other byte `fill`
make_proof(num_inputs, commitment, number, len, fill) ==
    [i \in 1..len |->
        IF i <= 4 THEN be_bytes(num_inputs)[i]
        ELSE IF i <= 36 THEN commitment[i - 4]
        ELSE IF i > 64 /\ i <= 68 THEN be_bytes(number)[i - 64]
        ELSE fill] \o <<>>

\* mutant: only the 68 bytes that are read are asked for
verify_proof_len68(stored_commitment, number, proof_blob) ==
    IF Len(proof_blob) < 68 THEN FALSE
    ELSE
    LET n0 == unwrap_or(bytes_get(proof_blob, 0), 0)
        n1 == unwrap_or(bytes_get(proof_blob, 1), 0)
        n2 == unwrap_or(bytes_get(proof_blob, 2), 0)
        n3 == unwrap_or(bytes_get(proof_blob, 3), 0)
        num_inputs == u32_from_be(n0, n1, n2, n3)
    IN  IF num_inputs # u32(2) THEN FALSE
        ELSE
        LET proof_commitment == [i \in 1..32 |-> unwrap_or(bytes_get(proof_blob, 4 + (i - 1)), 0)]
        IN  IF proof_commitment # stored_commitment THEN FALSE
            ELSE
            LET r0 == unwrap_or(bytes_get(proof_blob, 64), 0)
                r1 == unwrap_or(bytes_get(proof_blob, 65), 0)
                r2 == unwrap_or(bytes_get(proof_blob, 66), 0)
                r3 == unwrap_or(bytes_get(proof_blob, 67), 0)
                proof_number == u32_from_be(r0, r1, r2, r3)
            IN  proof_number = number

verify_proof(stored_commitment, number, proof_blob) ==
    IF Len(proof_blob) < 132 THEN FALSE
    ELSE
    LET n0 == unwrap_or(bytes_get(proof_blob, 0), 0)
        n1 == unwrap_or(bytes_get(proof_blob, 1), 0)
        n2 == unwrap_or(bytes_get(proof_blob, 2), 0)
        n3 == unwrap_or(bytes_get(proof_blob, 3), 0)
        num_inputs == u32_from_be(n0, n1, n2, n3)
    IN  IF num_inputs # u32(2) THEN FALSE
        ELSE
        LET proof_commitment == [i \in 1..32 |-> unwrap_or(bytes_get(proof_blob, 4 + (i - 1)), 0)]
        IN  IF proof_commitment # stored_commitment THEN FALSE
            ELSE
            LET r0 == unwrap_or(bytes_get(proof_blob, 64), 0)
                r1 == unwrap_or(bytes_get(proof_blob, 65), 0)
                r2 == unwrap_or(bytes_get(proof_blob, 66), 0)
                r3 == unwrap_or(bytes_get(proof_blob, 67), 0)
                proof_number == u32_from_be(r0, r1, r2, r3)
            IN  proof_number = number

----------------------------------------------------------------------------
(* Temporary storage: an entry holds the value and the last ledger it      *)
(* lives in.                                                               *)

temp_get(st, lg, key) ==
    IF is_some(st[key]) /\ unwrap(st[key]).live_until >= lg
    THEN Some(unwrap(st[key]).val) ELSE None

\* mutant: a live entry is not overwritten
temp_set_if_absent(st, lg, key, val) ==
    IF is_some(st[key]) /\ unwrap(st[key]).live_until >= lg
    THEN st
    ELSE [st EXCEPT ![key] = Some([val |-> val, live_until |-> lg])]

temp_set(st, lg, key, val) ==
    IF is_some(st[key]) /\ unwrap(st[key]).live_until >= lg
    THEN [st EXCEPT ![key] = Some([val |-> val, live_until |-> unwrap(st[key]).live_until])]
    ELSE [st EXCEPT ![key] = Some([val |-> val, live_until |-> lg])]

\* extends only when the remaining lifetime is below the threshold
temp_extend_ttl(st, lg, key, threshold, extend_to) ==
    IF unwrap(st[key]).live_until - lg < threshold
    THEN [st EXCEPT ![key] = Some([val |-> unwrap(st[key]).val, live_until |-> lg + extend_to])]
    ELSE st

----------------------------------------------------------------------------
(* What a call leaves behind: its return value, the storage and the hub    *)

Ret(res, st, hb) == [res |-> res, storage |-> st, hub |-> hb]

hub_start_game(hb, session_id, player1, player2, player1_points, player2_points) ==
    Append(hb, [fn |-> "start_game", session_id |-> session_id,
                args |-> <<"hand-cricket", player1, player2, player1_points, player2_points>>])

hub_end_game(hb, session_id, player1_won) ==
    Append(hb, [fn |-> "end_game", session_id |-> session_id, args |-> <<player1_won>>])

\* the number of calls of `fn` the hub has received
hub_calls(hb, fn) == Cardinality({i \in 1..Len(hb) : hb[i].fn = fn})

\* mutant: the hub is not told
call_end_game_silent(hb, session_id, player1_won) == hb

\* mutant: the hub is told the opposite result
call_end_game_negated(hb, session_id, player1_won) == hub_end_game(hb, session_id, ~player1_won)

call_end_game(hb, session_id, player1_won) == hub_end_game(hb, session_id, player1_won)

\* the Game start_game builds
new_game(player1, player2, player1_points, player2_points, player1_is_odd) ==
    [player1 |-> player1, player2 |-> player2,
     player1_points |-> player1_points, player2_points |-> player2_points,
     player1_is_odd |-> player1_is_odd, toss_winner |-> None, batter |-> None,
     p1_commitment |-> None, p2_commitment |-> None,
     p1_number |-> None, p2_number |-> None,
     p1_score |-> u32(0), p2_score |-> u32(0), innings |-> 1, target |-> u32(0),
     phase |-> "TossCommit", winner |-> None]

\* let player1_is_odd = seed_array[31] % 2 == 0;
seed_parity(seed_last) == seed_last % 2 = 0

\* env.storage().temporary().set(&key, &game); ...extend_ttl(&key, TTL, TTL); Ok(())
save_game(st, hb, lg, key, game) ==
    Ret("Ok", temp_extend_ttl(temp_set(st, lg, key, game), lg, key, GAME_TTL_LEDGERS, GAME_TTL_LEDGERS), hb)

\* mutant: the hub is told before the players are compared
start_game_call_notifies_first(st, hb, lg, session_id, player1, player2, player1_points, player2_points, seed_last) ==
    LET hb1 == hub_start_game(hb, session_id, player1, player2, player1_points, player2_points)
        game == new_game(player1, player2, player1_points, player2_points, seed_parity(seed_last))
    IN  IF player1 = player2 THEN Ret("SelfPlay", st, hb1)
        ELSE save_game(st, hb1, lg, session_id, game)

start_game_call(st, hb, lg, session_id, player1, player2, player1_points, player2_points, seed_last) ==
    IF player1 = player2 THEN Ret("SelfPlay", st, hb)
    ELSE
    LET player1_is_odd == seed_parity(seed_last)
        hb1 == hub_start_game(hb, session_id, player1, player2, player1_points, player2_points)
        game == new_game(player1, player2, player1_points, player2_points, player1_is_odd)
    IN  save_game(st, hb1, lg, session_id, game)

----------------------------------------------------------------------------
(* Pieces of the entry points *)

\* mutant: commit_number does not look at the phase
commit_phase_ok_any(phase) == TRUE

commit_phase_ok(phase) == phase \in {"TossCommit", "BallCommit"}
\* mutant: reveal_number does not look at the phase
reveal_phase_ok_any(phase) == TRUE

reveal_phase_ok(phase) == phase \in {"TossReveal", "BallReveal"}

both_committed(game) == is_some(game.p1_commitment) /\ is_some(game.p2_commitment)
both_revealed(game) == is_some(game.p1_number) /\ is_some(game.p2_number)

\* mutant: the number slots are left as they are
clear_slots_keeps_numbers(game) ==
    [game EXCEPT !.p1_commitment = None, !.p2_commitment = None]

\* game.p1_commitment = None; game.p2_commitment = None;
\* game.p1_number = None; game.p2_number = None;
clear_slots(game) ==
    [game EXCEPT !.p1_commitment = None, !.p2_commitment = None,
                 !.p1_number = None, !.p2_number = None]

\* mutant: the two branches are exchanged
other_player_swapped(game, player) == IF player = game.player1 THEN game.player1 ELSE game.player2

\* if player == game.player1 { game.player2 } else { game.player1 }
other_player(game, player) == IF player = game.player1 THEN game.player2 ELSE game.player1

\* mutant: the winner is recorded and the phase left as it is
finish_keeps_phase(game, winner) == [game EXCEPT !.winner = Some(winner)]

\* game.winner = Some(winner); game.phase = Phase::Finished;
finish(game, winner) == [game EXCEPT !.winner = Some(winner), !.phase = "Finished"]

\* mutant: the toss goes straight to the ball reveal
committed_phase_skips(phase) ==
    IF phase = "TossCommit" THEN Some("BallReveal")
    ELSE IF phase = "BallCommit" THEN Some("BallReveal")
    ELSE None

\* the phase commit_number moves to once both have committed; None for `_`
committed_phase(phase) ==
    IF phase = "TossCommit" THEN Some("TossReveal")
    ELSE IF phase = "BallCommit" THEN Some("BallReveal")
    ELSE None

\* mutant: the even case is forgotten
player1_wins_odd_only(player1_is_odd, sum_is_odd) == player1_is_odd /\ sum_is_odd

player1_wins(player1_is_odd, sum_is_odd) ==
    (player1_is_odd /\ sum_is_odd) \/ (~player1_is_odd /\ ~sum_is_odd)

\* The resolvers give back what reveal_number goes on with: "Ok" and the
\* game, an error, or "Panic" when checked arithmetic overflows.
Resolved(res, game, hb) == [res |-> res, game |-> game, hub |-> hb]

resolve_toss(game, hb, oc) ==
    LET sum == u32_add(unwrap_or(game.p1_number, u32(0)), unwrap_or(game.p2_number, u32(0)))
        sum_is_odd == u32_is_odd(sum.val)
        win1 == player1_wins(game.player1_is_odd, sum_is_odd)
        game1 == [game EXCEPT !.toss_winner = IF win1 THEN Some(game.player1) ELSE Some(game.player2)]
        game2 == [clear_slots(game1) EXCEPT !.phase = "BatBowlChoice"]
    IN  IF sum.overflow /\ oc THEN Resolved("Panic", game, hb)
        ELSE Resolved("Ok", game2, hb)

resolve_ball(hb, session_id, game, oc) ==
    LET p1_num == unwrap_or(game.p1_number, u32(0))
        p2_num == unwrap_or(game.p2_number, u32(0))
    IN
    IF ~is_some(game.batter) THEN Resolved("WrongPhase", game, hb)
    ELSE
    LET batter == unwrap(game.batter)
        is_out == p1_num = p2_num
    IN
    IF is_out THEN
        IF game.innings = 1 THEN
            LET score == IF batter = game.player1 THEN game.p1_score ELSE game.p2_score
                target == u32_add(score, u32(1))
                game1 == [game EXCEPT !.target = target.val, !.innings = 2,
                                      !.batter = Some(other_player(game, batter))]
                game2 == [clear_slots(game1) EXCEPT !.phase = "BallCommit"]
            IN  IF target.overflow /\ oc THEN Resolved("Panic", game, hb)
                ELSE Resolved("Ok", game2, hb)
        ELSE
            LET winner == other_player(game, batter)
            IN  Resolved("Ok", finish(game, winner), call_end_game(hb, session_id, winner = game.player1))
    ELSE
        IF batter = game.player1 THEN
            LET p1_score == u32_add(game.p1_score, p1_num)
                game1 == [game EXCEPT !.p1_score = p1_score.val]
            IN  IF p1_score.overflow /\ oc THEN Resolved("Panic", game, hb)
                ELSE IF game1.innings = 2 /\ u32_ge(game1.p1_score, game1.target) THEN
                    Resolved("Ok", finish(game1, game1.player1), call_end_game(hb, session_id, TRUE))
                ELSE Resolved("Ok", [clear_slots(game1) EXCEPT !.phase = "BallCommit"], hb)
        ELSE
            LET p2_score == u32_add(game.p2_score, p2_num)
                game1 == [game EXCEPT !.p2_score = p2_score.val]
            IN  IF p2_score.overflow /\ oc THEN Resolved("Panic", game, hb)
                ELSE IF game1.innings = 2 /\ u32_ge(game1.p2_score, game1.target) THEN
                    Resolved("Ok", finish(game1, game1.player2), call_end_game(hb, session_id, FALSE))
                ELSE Resolved("Ok", [clear_slots(game1) EXCEPT !.phase = "BallCommit"], hb)

----------------------------------------------------------------------------
(* The entry points, as functions of the storage, the hub and the ledger   *)

\* mutant: player2's slot is filled without looking whether it is taken
commit_slot_overwrites(game, player) ==
    IF player = game.player1 THEN
        IF is_some(game.p1_commitment) THEN "AlreadyCommitted" ELSE "Ok"
    ELSE IF player = game.player2 THEN "Ok"
    ELSE "NotPlayer"

\* whose slot commit_number fills, and the check on it: "Ok" or the error
commit_slot(game, player) ==
    IF player = game.player1 THEN
        IF is_some(game.p1_commitment) THEN "AlreadyCommitted" ELSE "Ok"
    ELSE IF player = game.player2 THEN
        IF is_some(game.p2_commitment) THEN "AlreadyCommitted" ELSE "Ok"
    ELSE "NotPlayer"

\* mutant: player1's proof is checked against player2's commitment
reveal_slot_crossed(game, player, number, proof_blob) ==
    IF player = game.player1 THEN
        IF is_some(game.p1_number) THEN "AlreadyRevealed"
        ELSE IF ~is_some(game.p2_commitment) THEN "CommitMissing"
        ELSE IF ~verify_proof(unwrap(game.p2_commitment), number, proof_blob) THEN "ProofInvalid"
        ELSE "Ok"
    ELSE IF player = game.player2 THEN
        IF is_some(game.p2_number) THEN "AlreadyRevealed"
        ELSE IF ~is_some(game.p2_commitment) THEN "CommitMissing"
        ELSE IF ~verify_proof(unwrap(game.p2_commitment), number, proof_blob) THEN "ProofInvalid"
        ELSE "Ok"
    ELSE "NotPlayer"

\* whose slot reveal_number fills, and the checks on it: "Ok" or the error
reveal_slot(game, player, number, proof_blob) ==
    IF player = game.player1 THEN
        IF is_some(game.p1_number) THEN "AlreadyRevealed"
        ELSE IF ~is_some(game.p1_commitment) THEN "CommitMissing"
        ELSE IF ~verify_proof(unwrap(game.p1_commitment), number, proof_blob) THEN "ProofInvalid"
        ELSE "Ok"
    ELSE IF player = game.player2 THEN
        IF is_some(game.p2_number) THEN "AlreadyRevealed"
        ELSE IF ~is_some(game.p2_commitment) THEN "CommitMissing"
        ELSE IF ~verify_proof(unwrap(game.p2_commitment), number, proof_blob) THEN "ProofInvalid"
        ELSE "Ok"
    ELSE "NotPlayer"

commit_number_call(st, hb, lg, session_id, player, commitment) ==
    LET got == temp_get(st, lg, session_id) IN
    IF ~is_some(got) THEN Ret("GameNotFound", st, hb)
    ELSE
    LET game == unwrap(got) IN
    IF is_some(game.winner) THEN Ret("GameAlreadyEnded", st, hb)
    ELSE IF ~commit_phase_ok(game.phase) THEN Ret("WrongPhase", st, hb)
    ELSE
    LET slot == commit_slot(game, player)
        game1 == IF player = game.player1
                 THEN [game EXCEPT !.p1_commitment = Some(commitment)]
                 ELSE [game EXCEPT !.p2_commitment = Some(commitment)]
    IN
    IF slot # "Ok" THEN Ret(slot, st, hb)
    ELSE IF both_committed(game1) THEN
        IF is_some(committed_phase(game1.phase))
        THEN save_game(st, hb, lg, session_id, [game1 EXCEPT !.phase = unwrap(committed_phase(game1.phase))])
        ELSE Ret("WrongPhase", st, hb)
    ELSE save_game(st, hb, lg, session_id, game1)

reveal_number_call(st, hb, lg, oc, session_id, player, number, proof_blob) ==
    LET got == temp_get(st, lg, session_id) IN
    IF ~is_some(got) THEN Ret("GameNotFound", st, hb)
    ELSE
    LET game == unwrap(got) IN
    IF is_some(game.winner) THEN Ret("GameAlreadyEnded", st, hb)
    ELSE IF ~reveal_phase_ok(game.phase) THEN Ret("WrongPhase", st, hb)
    ELSE
    LET slot == reveal_slot(game, player, number, proof_blob)
        game1 == IF player = game.player1
                 THEN [game EXCEPT !.p1_number = Some(number)]
                 ELSE [game EXCEPT !.p2_number = Some(number)]
    IN
    IF slot # "Ok" THEN Ret(slot, st, hb)
    ELSE IF both_revealed(game1) THEN
        LET r == IF game1.phase = "TossReveal" THEN resolve_toss(game1, hb, oc)
                 ELSE IF game1.phase = "BallReveal" THEN resolve_ball(hb, session_id, game1, oc)
                 ELSE Resolved("Ok", game1, hb)
        IN  IF r.res # "Ok" THEN Ret(r.res, st, hb)
            ELSE save_game(st, r.hub, lg, session_id, r.game)
    ELSE save_game(st, hb, lg, session_id, game1)

choose_role_call(st, hb, lg, session_id, player, bat) ==
    LET got == temp_get(st, lg, session_id) IN
    IF ~is_some(got) THEN Ret("GameNotFound", st, hb)
    ELSE
    LET game == unwrap(got) IN
    IF game.phase # "BatBowlChoice" THEN Ret("WrongPhase", st, hb)
    ELSE IF ~is_some(game.toss_winner) THEN Ret("WrongPhase", st, hb)
    ELSE IF player # unwrap(game.toss_winner) THEN Ret("NotTossWinner", st, hb)
    ELSE
    LET game1 == [game EXCEPT !.batter = IF bat THEN Some(player) ELSE Some(other_player(game, player))]
        game2 == [clear_slots(game1) EXCEPT !.phase = "BallCommit"]
    IN  save_game(st, hb, lg, session_id, game2)

get_game(st, lg, session_id) == temp_get(st, lg, session_id)

----------------------------------------------------------------------------
(* The (number, proof_blob) pairs offered to reveal_number: a well-formed  *)
(* 132-byte blob for every commitment and number, a longer one with other  *)
(* bytes elsewhere, and blobs that are too short, carry a wrong input      *)
(* count, or carry another number than the one claimed.                    *)

Reveals ==
    {<<n, make_proof(u32(2), c, n, 132, 0)>> : c \in Commitments, n \in Numbers}
    \cup {<<u32(1), make_proof(u32(2), Commitment(1), u32(1), 140, 255)>>,
          <<u32(1), make_proof(u32(2), Commitment(1), u32(1), 131, 0)>>,
          <<u32(1), make_proof(u32(3), Commitment(1), u32(1), 132, 0)>>,
          <<u32(1), make_proof(u32(2), Commitment(1), u32(0), 132, 0)>>}

----------------------------------------------------------------------------
(* The state machine *)

NoGame == [s \in SessionIds |-> None]

\* the session has a stored game; the game
live(s) == is_some(get_game(storage, ledger, s))
G(s) == unwrap(get_game(storage, ledger, s))

Init ==
    /\ storage = NoGame
    /\ hub = <<>>
    /\ ledger = 0
    /\ overflow_checks \in BOOLEAN
    /\ balls = 0

\* the stored game of a session, whatever its expiry
stored(st, session_id) == unwrap(st[session_id]).val

\* a ball round was resolved by the step from st to st2
ball_resolved(st, st2, session_id) ==
    /\ is_some(st[session_id]) /\ is_some(st2[session_id])
    /\ stored(st, session_id).phase = "BallReveal"
    /\ stored(st2, session_id).phase # "BallReveal"

start_game(session_id, player1, player2, player1_points, player2_points, seed_last) ==
    /\ hub_calls(hub, "start_game") < MaxStarts
    /\ \E r \in {start_game_call(storage, hub, ledger, session_id, player1, player2,
                                player1_points, player2_points, seed_last)} :
           /\ storage' = r.storage
           /\ hub' = r.hub
    /\ UNCHANGED <<ledger, overflow_checks, balls>>

commit_number(session_id, player, commitment) ==
    /\ balls < MaxBalls
    /\ \E r \in {commit_number_call(storage, hub, ledger, session_id, player, commitment)} :
           /\ storage' = r.storage
           /\ hub' = r.hub
    /\ UNCHANGED <<ledger, overflow_checks, balls>>

reveal_number(session_id, player, number, proof_blob) ==
    /\ \E r \in {reveal_number_call(storage, hub, ledger, overflow_checks, session_id, player,
                                   number, proof_blob)} :
           /\ storage' = r.storage
           /\ hub' = r.hub
           /\ balls' = IF ball_resolved(storage, r.storage, session_id) THEN balls + 1 ELSE balls
    /\ UNCHANGED <<ledger, overflow_checks>>

choose_role(session_id, player, bat) ==
    /\ \E r \in {choose_role_call(storage, hub, ledger, session_id, player, bat)} :
           /\ storage' = r.storage
           /\ hub' = r.hub
    /\ UNCHANGED <<ledger, overflow_checks, balls>>

\* The ledger advances; temporary entries past their last ledger are gone.
Tick ==
    /\ ledger < MaxTicks * LedgerStep
    /\ ledger' = ledger + LedgerStep
    /\ storage' = [s \in SessionIds |->
                     IF is_some(storage[s]) /\ unwrap(storage[s]).live_until < ledger + LedgerStep
                     THEN None ELSE storage[s]]
    /\ UNCHANGED <<hub, overflow_checks, balls>>

Next ==
    \/ \E s \in SessionIds, pp \in StartPairs, pt1 \in Points, pt2 \in Points, b \in SeedBytes :
          start_game(s, pp[1], pp[2], pt1, pt2, b)
    \/ \E s \in SessionIds, pc \in Commits : commit_number(s, pc[1], pc[2])
    \/ \E s \in SessionIds, p \in Addresses, rv \in Reveals : reveal_number(s, p, rv[1], rv[2])
    \/ \E s \in SessionIds, p \in Addresses, bat \in BOOLEAN : choose_role(s, p, bat)
    \/ Tick

Spec == Init /\ [][Next]_vars

----------------------------------------------------------------------------
(* The toss alone, with every number 0..9: a game just started, the two    *)
(* commits and the two reveals of the toss round.                          *)

TossNumbers == {u32(n) : n \in 0..9} \cup {U32_MAX}

TossInit ==
    /\ \E b \in SeedBytes :
          storage = start_game_call(NoGame, <<>>, 0, 1, "A", "B", 100, 100, b).storage
    /\ hub = hub_start_game(<<>>, 1, "A", "B", 100, 100)
    /\ ledger = 0
    /\ overflow_checks \in BOOLEAN
    /\ balls = 0

TossNext ==
    \/ \E pc \in Commits : commit_number(1, pc[1], pc[2])
    \/ \E pc \in Commits, n \in TossNumbers :
          /\ live(1) /\ G(1).phase = "TossReveal"
          /\ reveal_number(1, pc[1], n, make_proof(u32(2), pc[2], n, 132, 0))

TossSpec == TossInit /\ [][TossNext]_vars

----------------------------------------------------------------------------
(* The toss with proof blobs of every shape: right and wrong lengths,      *)
(* input counts, commitments and numbers, and other bytes in the parts of  *)
(* the blob that verify_proof does not read.                               *)

\* the blob with byte i (counted from 1) replaced by v
poke(b, i, v) == IF i <= Len(b) THEN [b EXCEPT ![i] = v] ELSE b

\* 0x01020304: four different bytes
Number1234 == <<258, 772>>

ProofNumbers == TossNumbers \cup {Number1234}

ProofBlobs ==
    {make_proof(u32(2), c, n, 132, 0) : c \in Commitments, n \in ProofNumbers}
    \cup {make_proof(ni, c, Number1234, len, fill) :
            ni \in {u32(2), u32(3), u32(258), <<512, 2>>}, c \in Commitments,
            len \in {0, 36, 67, 68, 131, 132, 140}, fill \in {0, 255}}
    \cup {poke(make_proof(u32(2), Commitment(1), Number1234, 133, 0), i, 9) :
            i \in {1, 2, 3, 4, 5, 20, 36, 65, 66, 67, 68}}

ProofNext ==
    \/ \E pc \in Commits : commit_number(1, pc[1], pc[2])
    \/ \E pc \in Commits, n \in ProofNumbers, b \in ProofBlobs :
          /\ live(1) /\ G(1).phase = "TossReveal"
          /\ reveal_number(1, pc[1], n, b)

ProofSpec == TossInit /\ [][ProofNext]_vars

----------------------------------------------------------------------------
(* Vocabulary of the properties *)

\* the step is a commit_number, reveal_number or choose_role call:
\* the ledger stands still and the hub has seen no new start_game
player_step ==
    /\ ledger' = ledger
    /\ hub_calls(hub', "start_game") = hub_calls(hub, "start_game")

\* positions in the hub's log of the calls of `fn` for a session
hub_log(hb, fn, s) == {i \in 1..Len(hb) : hb[i].fn = fn /\ hb[i].session_id = s}

\* the end_game calls for the session since its last start_game
ends_since_start(hb, s) ==
    Cardinality({i \in hub_log(hb, "end_game", s) : \A j \in hub_log(hb, "start_game", s) : j < i})

----------------------------------------------------------------------------
(* C1: a filled number slot implies that both commitment slots are filled, *)
(* and reveal_number succeeds only in a state where both players have      *)
(* committed in the round.                                                 *)

C1_RevealOnlyAfterBothCommitted ==
    \A s \in SessionIds : live(s) =>
        /\ (is_some(G(s).p1_number) \/ is_some(G(s).p2_number))
              => (is_some(G(s).p1_commitment) /\ is_some(G(s).p2_commitment))
        /\ \A p \in Addresses, rv \in Reveals :
              reveal_number_call(storage, hub, ledger, overflow_checks, s, p, rv[1], rv[2]).res = "Ok"
              => (is_some(G(s).p1_commitment) /\ is_some(G(s).p2_commitment))

\* one player has revealed in a round and the other has not yet
C1_Witness ==
    \E s \in SessionIds : live(s) /\ is_some(G(s).p1_number) /\ ~is_some(G(s).p2_number)
                          /\ G(s).phase = "BallReveal"

----------------------------------------------------------------------------
(* C2: a commit_number, reveal_number or choose_role call leaves the phase *)
(* as it is or moves it along one of the six edges of the phase machine.   *)

PhaseEdges ==
    {<<"TossCommit", "TossReveal">>, <<"TossReveal", "BatBowlChoice">>,
     <<"BatBowlChoice", "BallCommit">>, <<"BallCommit", "BallReveal">>,
     <<"BallReveal", "BallCommit">>, <<"BallReveal", "Finished">>}

C2_PhaseEdges ==
    [][\A s \in SessionIds : (player_step /\ live(s)) =>
          /\ live(s)'
          /\ \/ G(s)'.phase = G(s).phase
             \/ <<G(s).phase, G(s)'.phase>> \in PhaseEdges]_vars

\* second innings under way: the loop BallReveal -> BallCommit has been taken
C2_Witness ==
    \E s \in SessionIds : live(s) /\ G(s).phase = "BallReveal" /\ G(s).innings = 2

----------------------------------------------------------------------------
(* C3 as stated: the hub receives at most one end_game for a session id.   *)

C3_EndOncePerSession ==
    \A s \in SessionIds : Cardinality(hub_log(hub, "end_game", s)) <= 1

(* C3 amended: per game, that is since the session's last start_game, the  *)
(* hub receives at most one end_game; a step appends an end_game exactly   *)
(* when it sets winner, and a stored game has its end_game exactly when    *)
(* its winner is set.                                                      *)

C3_EndOncePerGame ==
    [][\A s \in SessionIds :
          /\ ends_since_start(hub', s) <= 1
          /\ SubSeq(hub', 1, Len(hub)) = hub
          /\ Len(hub') <= Len(hub) + 1
          /\ (Cardinality(hub_log(hub', "end_game", s)) = Cardinality(hub_log(hub, "end_game", s)) + 1)
                <=> (player_step /\ live(s) /\ ~is_some(G(s).winner) /\ live(s)' /\ is_some(G(s)'.winner))
          /\ live(s)' => (ends_since_start(hub', s) = IF is_some(G(s)'.winner) THEN 1 ELSE 0)]_vars

\* a finished game whose end_game has been sent
C3_Witness ==
    \E s \in SessionIds : live(s) /\ is_some(G(s).winner) /\ ends_since_start(hub, s) = 1

----------------------------------------------------------------------------
(* C4 as stated: once winner is set, no later operation on the session     *)
(* clears or changes it.                                                   *)

C4_WinnerKeptByEveryOperation ==
    [][\A s \in SessionIds : (ledger' = ledger /\ live(s) /\ is_some(G(s).winner)) =>
          (live(s)' /\ G(s)'.winner = G(s).winner)]_vars

(* C4 amended: winner is set only in phase Finished, and once it is set no *)
(* later commit_number, reveal_number or choose_role changes the stored    *)
(* game; only start_game on the same session id replaces it.               *)

C4_WinnerOnlyFinishedAndKept ==
    [][\A s \in SessionIds :
          /\ live(s)' => (is_some(G(s)'.winner) => G(s)'.phase = "Finished")
          /\ (player_step /\ live(s) /\ is_some(G(s).winner)) =>
                (live(s)' /\ G(s)' = G(s))]_vars

\* a finished game with its winner
C4_Witness ==
    \E s \in SessionIds : live(s) /\ is_some(G(s).winner) /\ G(s).phase = "Finished"
                          /\ G(s).winner = Some(G(s).player2)

----------------------------------------------------------------------------
(* The calls that can be made in a state, each with what it leaves behind  *)

CommitCalls(s) ==
    {[player |-> pc[1], commitment |-> pc[2],
      ret |-> commit_number_call(storage, hub, ledger, s, pc[1], pc[2])] : pc \in Commits}

RevealCalls(s) ==
    {[player |-> p, number |-> rv[1], proof_blob |-> rv[2],
      ret |-> reveal_number_call(storage, hub, ledger, overflow_checks, s, p, rv[1], rv[2])] :
        p \in Addresses, rv \in Reveals}

ChooseCalls(s) ==
    {[player |-> p, bat |-> b, ret |-> choose_role_call(storage, hub, ledger, s, p, b)] :
        p \in Addresses, b \in BOOLEAN}

StartCalls(s) ==
    {[player1 |-> pp[1], player2 |-> pp[2],
      ret |-> start_game_call(storage, hub, ledger, s, pp[1], pp[2], pt1, pt2, b)] :
        pp \in StartPairs, pt1 \in Points, pt2 \in Points, b \in SeedBytes}

\* what every call of the four entry points returns and leaves behind
Rets(s) ==
    {c.ret : c \in CommitCalls(s)} \cup {c.ret : c \in RevealCalls(s)}
    \cup {c.ret : c \in ChooseCalls(s)} \cup {c.ret : c \in StartCalls(s)}

\* the caller's own slots
own_commitment(g, p) ==
    IF p = g.player1 THEN g.p1_commitment ELSE IF p = g.player2 THEN g.p2_commitment ELSE None
own_number(g, p) ==
    IF p = g.player1 THEN g.p1_number ELSE IF p = g.player2 THEN g.p2_number ELSE None

\* a slot keeps its value or is emptied
kept_or_cleared(before, after) == is_some(before) => (after = before \/ after = None)

----------------------------------------------------------------------------
(* C5 as stated: while a player's commitment slot is filled, a commit by   *)
(* that player returns AlreadyCommitted; while a player's number slot is   *)
(* filled, a reveal by that player returns AlreadyRevealed.                *)

C5_RetryAlwaysAlreadyCommitted ==
    \A s \in SessionIds : live(s) =>
        /\ \A c \in CommitCalls(s) :
              is_some(own_commitment(G(s), c.player)) => c.ret.res = "AlreadyCommitted"
        /\ \A c \in RevealCalls(s) :
              is_some(own_number(G(s), c.player)) => c.ret.res = "AlreadyRevealed"

(* C5 amended: every successful call leaves a filled slot as it is or      *)
(* empties it; a commit by a player whose commitment slot is filled is     *)
(* rejected and changes nothing, with AlreadyCommitted exactly while the   *)
(* game is unfinished and in a commit phase, else with GameAlreadyEnded    *)
(* (winner set) or WrongPhase; the same for reveal, with AlreadyRevealed   *)
(* exactly while the game is unfinished and in a reveal phase.             *)

C5_SlotsKeptAndRetryRejected ==
    \A s \in SessionIds : live(s) =>
        /\ \A r \in Rets(s) : r.res = "Ok" =>
              /\ kept_or_cleared(G(s).p1_commitment, stored(r.storage, s).p1_commitment)
              /\ kept_or_cleared(G(s).p2_commitment, stored(r.storage, s).p2_commitment)
              /\ kept_or_cleared(G(s).p1_number, stored(r.storage, s).p1_number)
              /\ kept_or_cleared(G(s).p2_number, stored(r.storage, s).p2_number)
        /\ \A c \in CommitCalls(s) : is_some(own_commitment(G(s), c.player)) =>
              /\ c.ret.storage = storage /\ c.ret.hub = hub
              /\ c.ret.res = IF is_some(G(s).winner) THEN "GameAlreadyEnded"
                             ELSE IF G(s).phase \in {"TossCommit", "BallCommit"} THEN "AlreadyCommitted"
                             ELSE "WrongPhase"
        /\ \A c \in RevealCalls(s) : is_some(own_number(G(s), c.player)) =>
              /\ c.ret.storage = storage /\ c.ret.hub = hub
              /\ c.ret.res = IF is_some(G(s).winner) THEN "GameAlreadyEnded"
                             ELSE IF G(s).phase \in {"TossReveal", "BallReveal"} THEN "AlreadyRevealed"
                             ELSE "WrongPhase"

\* player2 has committed in a ball round, player1 has not
C5_Witness ==
    \E s \in SessionIds : live(s) /\ G(s).phase = "BallCommit"
                          /\ is_some(G(s).p2_commitment) /\ ~is_some(G(s).p1_commitment)

----------------------------------------------------------------------------
(* C6: a call of start_game, commit_number, reveal_number or choose_role   *)
(* that does not return Ok returns one of the ten errors (or panics on an  *)
(* overflow) and leaves the storage, with every game and its expiry, and   *)
(* the hub's log as they were.                                             *)

C6_ErrorChangesNothing ==
    \A s \in SessionIds : \A r \in Rets(s) :
        /\ r.res \in Errors \cup {"Ok", "Panic"}
        /\ r.res # "Ok" => (r.storage = storage /\ r.hub = hub)

\* a reveal is rejected with ProofInvalid at a ledger where a renewal of the
\* expiry would show, and a start is rejected with SelfPlay
C6_Witness ==
    \E s \in SessionIds :
        /\ live(s) /\ unwrap(storage[s]).live_until < ledger + GAME_TTL_LEDGERS
        /\ \E c \in RevealCalls(s) : c.ret.res = "ProofInvalid"
        /\ \E c \in StartCalls(s) : c.ret.res = "SelfPlay"

----------------------------------------------------------------------------
(* C7: commit_number returns the first failing check in the order          *)
(* GameNotFound, GameAlreadyEnded, WrongPhase, NotPlayer,                  *)
(* AlreadyCommitted; otherwise it returns Ok, fills the caller's           *)
(* commitment slot with the value given and nothing else, and moves the    *)
(* phase to TossReveal/BallReveal exactly when both slots are then filled. *)

C7_committed(g, p, c) ==
    LET g1 == IF p = g.player1 THEN [g EXCEPT !.p1_commitment = Some(c)]
              ELSE [g EXCEPT !.p2_commitment = Some(c)]
    IN  IF is_some(g1.p1_commitment) /\ is_some(g1.p2_commitment)
        THEN [g1 EXCEPT !.phase = IF g.phase = "TossCommit" THEN "TossReveal" ELSE "BallReveal"]
        ELSE g1

C7_CommitChecksInOrder ==
    \A s \in SessionIds : \A c \in CommitCalls(s) :
        IF ~live(s) THEN c.ret.res = "GameNotFound"
        ELSE IF is_some(G(s).winner) THEN c.ret.res = "GameAlreadyEnded"
        ELSE IF G(s).phase \notin {"TossCommit", "BallCommit"} THEN c.ret.res = "WrongPhase"
        ELSE IF c.player \notin {G(s).player1, G(s).player2} THEN c.ret.res = "NotPlayer"
        ELSE IF is_some(own_commitment(G(s), c.player)) THEN c.ret.res = "AlreadyCommitted"
        ELSE /\ c.ret.res = "Ok"
             /\ c.ret.hub = hub
             /\ stored(c.ret.storage, s) = C7_committed(G(s), c.player, c.commitment)

\* player2 alone has committed in the toss: the phase has not moved
C7_Witness ==
    \E s \in SessionIds : live(s) /\ G(s).phase = "TossCommit"
                          /\ G(s).p2_commitment = Some(Commitment(2)) /\ ~is_some(G(s).p1_commitment)

----------------------------------------------------------------------------
(* C8: a number slot is filled only by reveal_number, called by the player *)
(* whose slot it is, in phase TossReveal or BallReveal, with a number and  *)
(* proof blob that match that player's own stored commitment; the          *)
(* commitment is one of the current round, since every round starts with   *)
(* the four slots empty; a first reveal changes nothing but the caller's   *)
(* number slot.                                                            *)

\* the layout check of the proof: length, input count 2, commitment, number
C8_accepts(c, n, b) ==
    /\ Len(b) >= 132
    /\ <<b[1], b[2], b[3], b[4]>> = <<0, 0, 0, 2>>
    /\ SubSeq(b, 5, 36) = c
    /\ n = <<b[65] * 256 + b[66], b[67] * 256 + b[68]>>

C8_slots_empty(g) ==
    g.p1_commitment = None /\ g.p2_commitment = None /\ g.p1_number = None /\ g.p2_number = None

C8_NumberSlotOnlyByOwnVerifiedReveal ==
    \A s \in SessionIds :
        \* a game enters TossCommit, BatBowlChoice and BallCommit with empty slots
        /\ \A r \in Rets(s) :
              (r.res = "Ok" /\ stored(r.storage, s).phase \in {"TossCommit", "BatBowlChoice", "BallCommit"}
                 /\ (~live(s) \/ stored(r.storage, s).phase # G(s).phase \/ r.hub # hub))
              => C8_slots_empty(stored(r.storage, s))
        /\ live(s) =>
            \* no other entry point fills a number slot
            /\ \A r \in {c.ret : c \in CommitCalls(s)} \cup {c.ret : c \in ChooseCalls(s)} :
                  r.res = "Ok" =>
                     /\ stored(r.storage, s).p1_number \in {G(s).p1_number, None}
                     /\ stored(r.storage, s).p2_number \in {G(s).p2_number, None}
            /\ \A c \in RevealCalls(s) : c.ret.res = "Ok" =>
                  LET g == G(s)
                      g2 == stored(c.ret.storage, s)
                      first == IF c.player = g.player1 THEN [g EXCEPT !.p1_number = Some(c.number)]
                               ELSE [g EXCEPT !.p2_number = Some(c.number)]
                  IN  /\ c.player \in {g.player1, g.player2}
                      /\ g.phase \in {"TossReveal", "BallReveal"}
                      /\ is_some(own_commitment(g, c.player))
                      /\ C8_accepts(unwrap(own_commitment(g, c.player)), c.number, c.proof_blob)
                      /\ own_number(g2, c.player) \in {Some(c.number), None}
                      /\ \/ g2 = first
                         \/ /\ is_some(first.p1_number) /\ is_some(first.p2_number)
                            /\ g2.phase # g.phase
                            /\ g2.p1_number \in {first.p1_number, None}
                            /\ g2.p2_number \in {first.p2_number, None}
                            /\ g2.p1_commitment \in {first.p1_commitment, None}
                            /\ g2.p2_commitment \in {first.p2_commitment, None}

\* player2 alone has revealed in the toss
C8_Witness ==
    \E s \in SessionIds : live(s) /\ G(s).phase = "TossReveal"
                          /\ G(s).p2_number = Some(U32_MAX) /\ ~is_some(G(s).p1_number)

----------------------------------------------------------------------------
(* C9: choose_role returns GameNotFound without a game, WrongPhase unless  *)
(* the phase is BatBowlChoice, NotTossWinner unless the caller is the toss *)
(* winner; otherwise Ok, and the game is as before except that batter is   *)
(* the caller (bat) or the other player (bowl), the four slots are empty   *)
(* and the phase is BallCommit.                                            *)

C9_opponent(g, p) == CHOOSE q \in {g.player1, g.player2} : q # p

C9_ChooseRole ==
    \A s \in SessionIds : \A c \in ChooseCalls(s) :
        IF ~live(s) THEN c.ret.res = "GameNotFound"
        ELSE IF G(s).phase # "BatBowlChoice" THEN c.ret.res = "WrongPhase" /\ c.ret.storage = storage
        ELSE IF G(s).toss_winner # Some(c.player) THEN c.ret.res = "NotTossWinner" /\ c.ret.storage = storage
        ELSE /\ c.ret.res = "Ok"
             /\ c.ret.hub = hub
             /\ stored(c.ret.storage, s) =
                   [G(s) EXCEPT !.batter = Some(IF c.bat THEN c.player ELSE C9_opponent(G(s), c.player)),
                                !.p1_commitment = None, !.p2_commitment = None,
                                !.p1_number = None, !.p2_number = None,
                                !.phase = "BallCommit"]

\* the toss winner has chosen to bowl: first innings, the other player bats
C9_Witness ==
    \E s \in SessionIds : live(s) /\ G(s).phase = "BallCommit" /\ G(s).innings = 1
                          /\ G(s).p1_score = u32(0) /\ G(s).p2_score = u32(0)
                          /\ G(s).toss_winner = Some(G(s).player1) /\ G(s).batter = Some(G(s).player2)

----------------------------------------------------------------------------
(* C10: the second reveal of the toss, when it succeeds, sets toss_winner  *)
(* to player1 if player1_is_odd equals the oddness of p1_number +          *)
(* p2_number and to player2 otherwise, whoever revealed first.             *)

\* the reveals of the toss by the two players, with well-formed proofs
C10_TossReveals(s) ==
    {[player |-> pc[1], number |-> n,
      ret |-> reveal_number_call(storage, hub, ledger, overflow_checks, s, pc[1], n,
                                 make_proof(u32(2), pc[2], n, 132, 0))] :
        pc \in Commits, n \in TossNumbers}

C10_TossParity ==
    \A s \in SessionIds : (live(s) /\ G(s).phase = "TossReveal") =>
        \A c \in C10_TossReveals(s) :
            (c.ret.res = "Ok" /\ (is_some(G(s).p1_number) \/ is_some(G(s).p2_number))) =>
                LET g == G(s)
                    n1 == IF c.player = g.player1 THEN c.number ELSE unwrap(g.p1_number)
                    n2 == IF c.player = g.player2 THEN c.number ELSE unwrap(g.p2_number)
                    \* the oddness of n1 + n2 is that of the sum of their low halves
                    sum_is_odd == (n1[2] + n2[2]) % 2 = 1
                    g2 == stored(c.ret.storage, s)
                IN  /\ g2.phase = "BatBowlChoice"
                    /\ g2.toss_winner = Some(IF g.player1_is_odd = sum_is_odd THEN g.player1 ELSE g.player2)
                    /\ g2.toss_winner = Some(g.player1) <=> (g.player1_is_odd = sum_is_odd)

\* player1 is "even", the numbers of the toss added up to an even sum, and
\* player1 has won the toss
C10_Witness ==
    \E s \in SessionIds : live(s) /\ G(s).phase = "BatBowlChoice"
                          /\ ~G(s).player1_is_odd /\ G(s).toss_winner = Some(G(s).player1)

----------------------------------------------------------------------------
(* C11: start_game stores player1_is_odd = TRUE exactly when the last byte *)
(* of the seed hash is odd, and no commit_number, reveal_number or         *)
(* choose_role call changes the flag.                                      *)

\* what commit_number, reveal_number and choose_role return and leave behind
PlayerRets(s) ==
    {c.ret : c \in CommitCalls(s)} \cup {c.ret : c \in RevealCalls(s)}
    \cup {c.ret : c \in ChooseCalls(s)}

C11_OddSeedByteMakesPlayer1Odd ==
    \A s \in SessionIds :
        /\ \A pp \in StartPairs, pt1 \in Points, pt2 \in Points, b \in SeedBytes :
              LET r == start_game_call(storage, hub, ledger, s, pp[1], pp[2], pt1, pt2, b)
              IN  r.res = "Ok" => (stored(r.storage, s).player1_is_odd <=> (b % 2 = 1))
        /\ live(s) => \A r \in PlayerRets(s) :
              r.res = "Ok" => stored(r.storage, s).player1_is_odd = G(s).player1_is_odd

----------------------------------------------------------------------------
(* C12: innings is 1 or 2 and target is 0 while innings is 1; within a     *)
(* game innings never goes back from 2 to 1; from the step that sets       *)
(* innings to 2 on, target is the first-innings batter's score plus 1, and *)
(* neither target nor that score changes while the game goes on.           *)

\* a player's score
score_of(g, p) == IF p = g.player1 THEN g.p1_score ELSE g.p2_score

\* the player who is not p
opponent(g, p) == CHOOSE q \in {g.player1, g.player2} : q # p

\* t is a + 1 as integers: the sum fits the 32 bits and t is the sum
is_succ(t, a) == ~u32_add(a, u32(1)).overflow /\ t = u32_add(a, u32(1)).val

\* in the second innings the batter is the chaser; the other player batted first
first_batter(g) == opponent(g, unwrap(g.batter))

C12_InningsAndTarget ==
    [][\A s \in SessionIds :
          /\ live(s)' =>
                /\ G(s)'.innings \in {1, 2}
                /\ G(s)'.innings = 1 => G(s)'.target = u32(0)
                /\ G(s)'.innings = 2 =>
                      /\ is_some(G(s)'.batter)
                      /\ is_succ(G(s)'.target, score_of(G(s)', first_batter(G(s)')))
          /\ (player_step /\ live(s) /\ G(s).innings = 2) =>
                /\ live(s)' /\ G(s)'.innings = 2
                /\ G(s)'.target = G(s).target
                /\ first_batter(G(s)') = first_batter(G(s))
                /\ score_of(G(s)', first_batter(G(s))) = score_of(G(s), first_batter(G(s)))
          /\ (player_step /\ live(s) /\ G(s).innings = 1 /\ live(s)' /\ G(s)'.innings = 2) =>
                /\ first_batter(G(s)') = unwrap(G(s).batter)
                /\ score_of(G(s)', first_batter(G(s)')) = score_of(G(s), first_batter(G(s)'))]_vars

----------------------------------------------------------------------------
(* C13: no successful commit_number, reveal_number or choose_role call     *)
(* makes p1_score or p2_score smaller; a score changes only in the reveal  *)
(* that resolves a ball with two different numbers, and only the score of  *)
(* the player who is batter in that ball.                                  *)

\* the two numbers of the round once the caller's reveal is in
revealed1(g, c) == IF c.player = g.player1 THEN c.number ELSE unwrap(g.p1_number)
revealed2(g, c) == IF c.player = g.player2 THEN c.number ELSE unwrap(g.p2_number)

\* the reveal is the second of its round
second_reveal(g, c) ==
    /\ c.player \in {g.player1, g.player2}
    /\ is_some(own_number(g, opponent(g, c.player)))

C13_ScoresNeverDecrease ==
    \A s \in SessionIds : live(s) =>
        /\ \A r \in {c.ret : c \in CommitCalls(s)} \cup {c.ret : c \in ChooseCalls(s)} :
              r.res = "Ok" => /\ stored(r.storage, s).p1_score = G(s).p1_score
                              /\ stored(r.storage, s).p2_score = G(s).p2_score
        /\ \A c \in RevealCalls(s) : c.ret.res = "Ok" =>
              LET g == G(s)
                  g2 == stored(c.ret.storage, s)
              IN  /\ u32_ge(g2.p1_score, g.p1_score)
                  /\ u32_ge(g2.p2_score, g.p2_score)
                  /\ (g2.p1_score # g.p1_score \/ g2.p2_score # g.p2_score) =>
                        /\ g.phase = "BallReveal" /\ second_reveal(g, c)
                        /\ revealed1(g, c) # revealed2(g, c)
                        /\ is_some(g.batter)
                        /\ score_of(g2, opponent(g, unwrap(g.batter)))
                              = score_of(g, opponent(g, unwrap(g.batter)))

----------------------------------------------------------------------------
(* C14: when the second reveal of a ball round in innings 1 makes the two  *)
(* numbers equal, the stored game has target = the batter's score before   *)
(* the ball plus 1, innings 2, the other player as batter, both scores as  *)
(* before, the four slots empty, phase BallCommit and no winner, and the   *)
(* hub receives no call.                                                   *)

\* the successful second reveals of a ball round, by whether they are out
BallReveals(s, out) ==
    {c \in RevealCalls(s) :
        /\ c.ret.res = "Ok" /\ G(s).phase = "BallReveal" /\ second_reveal(G(s), c)
        /\ (revealed1(G(s), c) = revealed2(G(s), c)) = out}

C14_OutInFirstInnings ==
    \A s \in SessionIds : (live(s) /\ G(s).innings = 1) =>
        \A c \in BallReveals(s, TRUE) :
            LET g == G(s)
                g2 == stored(c.ret.storage, s)
                batter == unwrap(g.batter)
            IN  /\ is_succ(g2.target, score_of(g, batter))
                /\ g2 = [g EXCEPT !.target = g2.target, !.innings = 2,
                                  !.batter = Some(opponent(g, batter)),
                                  !.p1_commitment = None, !.p2_commitment = None,
                                  !.p1_number = None, !.p2_number = None,
                                  !.phase = "BallCommit"]
                /\ g2.winner = None
                /\ c.ret.hub = hub

----------------------------------------------------------------------------
(* C15: when the second reveal of a ball round in innings 2 makes the two  *)
(* numbers equal, the call succeeds and ends the game: winner is the       *)
(* player who is not the batter, phase is Finished, both scores are as     *)
(* before, and the hub receives end_game with player1_won = (winner is     *)
(* player1).                                                               *)

\* a reveal that passes every check of reveal_number in a ball round and is
\* the second of the round
passes_as_second(g, c) ==
    /\ g.winner = None /\ g.phase = "BallReveal" /\ second_reveal(g, c)
    /\ own_number(g, c.player) = None
    /\ is_some(own_commitment(g, c.player))
    /\ C8_accepts(unwrap(own_commitment(g, c.player)), c.number, c.proof_blob)

C15_OutInSecondInnings ==
    \A s \in SessionIds : (live(s) /\ G(s).innings = 2) =>
        \A c \in RevealCalls(s) :
            (passes_as_second(G(s), c) /\ revealed1(G(s), c) = revealed2(G(s), c)) =>
                LET g == G(s)
                    g2 == stored(c.ret.storage, s)
                    winner == opponent(g, unwrap(g.batter))
                IN  /\ c.ret.res = "Ok"
                    /\ g2.winner = Some(winner)
                    /\ g2.phase = "Finished"
                    /\ g2.p1_score = g.p1_score /\ g2.p2_score = g.p2_score
                    /\ g2.batter = g.batter /\ g2.innings = 2 /\ g2.target = g.target
                    /\ c.ret.hub = Append(hub, [fn |-> "end_game", session_id |-> s,
                                                args |-> <<winner = g.player1>>])

\* the chaser was out: the game is finished, the two numbers of the last
\* ball are equal and the winner is the player who was not batting
C15_Witness ==
    \E s \in SessionIds :
        /\ live(s) /\ G(s).phase = "Finished" /\ G(s).innings = 2
        /\ is_some(G(s).p1_number) /\ G(s).p1_number = G(s).p2_number
        /\ G(s).winner = Some(opponent(G(s), unwrap(G(s).batter)))
        /\ G(s).winner = Some(G(s).player1)

----------------------------------------------------------------------------
(* C16: when the second reveal of a ball round has two different numbers,  *)
(* the batter's score grows by exactly the batter's own number and the     *)
(* bowler's score stays; in innings 2 with the new score at or above the   *)
(* target the game finishes in that call with the batter as winner;        *)
(* otherwise the four slots are emptied, the phase is BallCommit again,    *)
(* and batter, innings and target are as before.                           *)

C16_NotOut ==
    \A s \in SessionIds : live(s) =>
        \A c \in BallReveals(s, FALSE) :
            LET g == G(s)
                g2 == stored(c.ret.storage, s)
                batter == unwrap(g.batter)
                bowler == opponent(g, batter)
                own == IF batter = g.player1 THEN revealed1(g, c) ELSE revealed2(g, c)
                sum == u32_add(score_of(g, batter), own)
            IN  /\ ~sum.overflow
                /\ score_of(g2, batter) = sum.val
                /\ score_of(g2, bowler) = score_of(g, bowler)
                /\ g2.batter = g.batter /\ g2.innings = g.innings /\ g2.target = g.target
                /\ IF g.innings = 2 /\ u32_ge(score_of(g2, batter), g.target)
                   THEN /\ g2.winner = Some(batter) /\ g2.phase = "Finished"
                        /\ c.ret.hub = Append(hub, [fn |-> "end_game", session_id |-> s,
                                                    args |-> <<batter = g.player1>>])
                   ELSE /\ C8_slots_empty(g2) /\ g2.phase = "BallCommit"
                        /\ g2.winner = None /\ c.ret.hub = hub

----------------------------------------------------------------------------
(* C17: verify_proof accepts exactly when the blob has at least 132 bytes, *)
(* its bytes [0..4) read big-endian are 2, its bytes [4..36) are the       *)
(* stored commitment and its bytes [64..68) read big-endian are the        *)
(* number; the answer is the same whatever the bytes [36..64) and the      *)
(* bytes from offset 68 on are, and whatever follows the first 132 bytes.  *)

\* bytes [from..from+4) of the blob (offsets from 0) read big-endian
C17_be32(b, from) == <<b[from + 1] * 256 + b[from + 2], b[from + 3] * 256 + b[from + 4]>>

C17_accepts(c, n, b) ==
    /\ Len(b) >= 132
    /\ C17_be32(b, 0) = u32(2)
    /\ \A i \in 0..31 : b[4 + i + 1] = c[i + 1]
    /\ C17_be32(b, 64) = n

\* offsets of bytes that are not read
C17_Unread == {36, 50, 63, 68, 100, 131, 132, 139}

C17_VerifyProof ==
    \A s \in SessionIds : live(s) =>
        \A c \in {unwrap(o) : o \in {G(s).p1_commitment, G(s).p2_commitment} \ {None}} :
            \A n \in ProofNumbers, b \in ProofBlobs :
                /\ verify_proof(c, n, b) \in BOOLEAN
                /\ verify_proof(c, n, b) <=> C17_accepts(c, n, b)
                /\ n \in {u32(0), Number1234} =>
                      /\ \A i \in C17_Unread :
                            verify_proof(c, n, poke(b, i + 1, 77)) = verify_proof(c, n, b)
                      /\ Len(b) >= 132 => verify_proof(c, n, b \o <<1, 2, 3>>) = verify_proof(c, n, b)

\* player1 has revealed 0x01020304, and among the blobs offered for that
\* commitment and number there are an accepted one of 140 bytes with other
\* bytes in the unread parts, and rejected ones of 131 bytes and with a
\* number that differs in its last byte only
C17_Witness ==
    \E s \in SessionIds :
        /\ live(s) /\ G(s).phase = "TossReveal" /\ G(s).p1_number = Some(Number1234)
        /\ LET c == unwrap(G(s).p1_commitment)
           IN  /\ verify_proof(c, Number1234, make_proof(u32(2), c, Number1234, 140, 255))
               /\ ~verify_proof(c, Number1234, make_proof(u32(2), c, Number1234, 131, 0))
               /\ ~verify_proof(c, Number1234, poke(make_proof(u32(2), c, Number1234, 133, 0), 68, 9))

----------------------------------------------------------------------------
(* C18: start_game for a session id that has a stored game, whatever its   *)
(* phase, fails only with SelfPlay for player1 = player2; otherwise it     *)
(* returns Ok, the stored game is a fresh one (phase TossCommit, scores 0, *)
(* innings 1, target 0, the four slots, toss_winner, batter and winner     *)
(* empty) of the players and stakes given, and the hub receives one more   *)
(* start_game.                                                             *)

C18_Players == Addresses \X Addresses

C18_RestartReplaces ==
    \A s \in SessionIds : live(s) =>
        \A pp \in C18_Players, pt1 \in Points, pt2 \in Points, b \in SeedBytes :
            LET r == start_game_call(storage, hub, ledger, s, pp[1], pp[2], pt1, pt2, b)
            IN  IF pp[1] = pp[2] THEN r.res = "SelfPlay"
                ELSE /\ r.res = "Ok"
                     /\ \E odd \in BOOLEAN :
                           stored(r.storage, s) =
                              [player1 |-> pp[1], player2 |-> pp[2],
                               player1_points |-> pt1, player2_points |-> pt2,
                               player1_is_odd |-> odd, toss_winner |-> None, batter |-> None,
                               p1_commitment |-> None, p2_commitment |-> None,
                               p1_number |-> None, p2_number |-> None,
                               p1_score |-> u32(0), p2_score |-> u32(0),
                               innings |-> 1, target |-> u32(0),
                               phase |-> "TossCommit", winner |-> None]
                     /\ get_game(r.storage, ledger, s) = Some(stored(r.storage, s))
                     /\ Len(r.hub) = Len(hub) + 1
                     /\ SubSeq(r.hub, 1, Len(hub)) = hub
                     /\ r.hub[Len(r.hub)].fn = "start_game"
                     /\ r.hub[Len(r.hub)].session_id = s
                     /\ r.hub[Len(r.hub)].args = <<"hand-cricket", pp[1], pp[2], pt1, pt2>>

\* a fresh game stored over a finished one: the hub's log holds the first
\* start, the end of that game and, last, the second start
C18_Witness ==
    \E s \in SessionIds :
        /\ live(s) /\ G(s).phase = "TossCommit" /\ G(s).winner = None
        /\ Cardinality(hub_log(hub, "end_game", s)) = 1
        /\ Cardinality(hub_log(hub, "start_game", s)) = 2
        /\ hub[Len(hub)].fn = "start_game"

----------------------------------------------------------------------------
(* C19: in a reveal phase both commitment slots are filled; in TossCommit, *)
(* BatBowlChoice and BallCommit both number slots are empty; in            *)
(* BatBowlChoice toss_winner is set; in BallCommit, BallReveal and         *)
(* Finished batter is set and is one of the two players.  So reveal_number *)
(* never returns CommitMissing, and WrongPhase comes only from the phase   *)
(* checks at the head of commit_number, reveal_number and choose_role.     *)

C19_DefensivePathsUnreachable ==
    \A s \in SessionIds : live(s) =>
        LET g == G(s) IN
        /\ g.phase \in Phases
        /\ g.phase \in {"TossReveal", "BallReveal"} =>
              (is_some(g.p1_commitment) /\ is_some(g.p2_commitment))
        /\ g.phase \in {"TossCommit", "BatBowlChoice", "BallCommit"} =>
              (g.p1_number = None /\ g.p2_number = None)
        /\ g.phase = "BatBowlChoice" => is_some(g.toss_winner)
        /\ g.phase \in {"BallCommit", "BallReveal", "Finished"} =>
              (is_some(g.batter) /\ unwrap(g.batter) \in {g.player1, g.player2})
        /\ \A c \in RevealCalls(s) :
              /\ c.ret.res # "CommitMissing"
              /\ c.ret.res = "WrongPhase" => g.phase \notin {"TossReveal", "BallReveal"}
        /\ \A c \in CommitCalls(s) :
              c.ret.res = "WrongPhase" => g.phase \notin {"TossCommit", "BallCommit"}
        /\ \A c \in ChooseCalls(s) :
              c.ret.res = "WrongPhase" => g.phase # "BatBowlChoice"

\* the last reveal of a second-innings ball is due: were batter or a
\* commitment missing, this reveal would take a defensive path
C19_Witness ==
    \E s \in SessionIds :
        /\ live(s) /\ G(s).phase = "BallReveal" /\ G(s).innings = 2
        /\ is_some(G(s).p1_number) /\ G(s).p2_number = None
        /\ \E c \in RevealCalls(s) : c.player = G(s).player2 /\ c.ret.res = "Ok"

----------------------------------------------------------------------------
(* C20: a finished game is in innings 2, and its winner fits the scores:   *)
(* if the second-innings batter has won, that player's score is at least   *)
(* target and greater than the first-innings batter's score; if the        *)
(* first-innings batter has won, the second-innings batter's score is      *)
(* below target and at most the first-innings batter's score.              *)

C20_WinnerFitsScores ==
    \A s \in SessionIds : (live(s) /\ G(s).phase = "Finished") =>
        LET g == G(s) IN
        /\ g.innings = 2
        /\ is_some(g.winner) /\ is_some(g.batter)
        /\ LET chaser == unwrap(g.batter)
               first == opponent(g, chaser)
           IN  IF g.winner = Some(chaser)
               THEN /\ u32_ge(score_of(g, chaser), g.target)
                    /\ u32_lt(score_of(g, first), score_of(g, chaser))
               ELSE /\ g.winner = Some(first)
                    /\ u32_lt(score_of(g, chaser), g.target)
                    /\ u32_ge(score_of(g, first), score_of(g, chaser))

====
